---- MODULE Spec2Model ----
(***************************************************************************)
(* Model of the AI Debug Copilot backend: the model gateway                *)
(* (app/ollama_client.py), the output normalizer, schema validator and     *)
(* retry orchestrator (app/services/debug_service.py) and the /debug       *)
(* request boundary (app/main.py).                                         *)
(*                                                                         *)
(* Python values are tagged records:                                       *)
(*   None  [t |-> "null"]            bool  [t |-> "bool", b |-> TRUE]      *)
(*   int   [t |-> "num", n |-> 1]    str   [t |-> "str", s |-> "x"]        *)
(*   list  [t |-> "arr", a |-> <<v1, v2>>]                                 *)
(*   dict  [t |-> "obj", o |-> << <<k1, v1>>, <<k2, v2>> >>]  (insertion   *)
(*         order kept, as Python dicts do)                                 *)
(* Python str is a TLA+ string, character for character (the backquote is  *)
(* written "~").                                                           *)
(***************************************************************************)
EXTENDS Integers, Sequences, FiniteSets, TLC

VARIABLES
    environ,      \* os.environ: the process-wide environment
    modcfg,       \* ollama_client's module globals, set at import
    envChanges,   \* number of environment overrides applied so far
    endpoint,     \* the route of the request: "/debug" or "/parse"
    pc,           \* position of the request's task
    prompt,       \* the prompt run_debug hands to _run_llm
    calls,        \* the HTTP POSTs issued by call_ollama, in order
    resps,        \* the HTTP responses received, in order
    result,       \* how _run_llm ended
    http,         \* what the /debug handler answered
    log,          \* logger.warning records of _log_raw_snippet
    attempts,     \* how each attempt (gateway call and parse) ended, in order
    pin,          \* input of the function under test
    pobj,         \* that input object as the call left it
    pout,         \* its output
    pfun          \* which function was applied

vars == <<environ, modcfg, envChanges, endpoint, pc, prompt, calls, resps, result, http,
          log, attempts, pin, pobj, pout, pfun>>

runVars == <<environ, modcfg, envChanges, endpoint, pc, prompt, calls, resps, result,
             http, log, attempts>>
pureVars == <<pin, pobj, pout, pfun>>

----------------------------------------------------------------------------
(* Bounds *)

MaxLen == 2          \* longest list handed to _list_to_str_list
MaxEnvChanges == 1   \* environment overrides during one request

----------------------------------------------------------------------------
(* Python values *)

JNull == [t |-> "null"]
JBool(b) == [t |-> "bool", b |-> b]
JNum(n) == [t |-> "num", n |-> n]
JStr(s) == [t |-> "str", s |-> s]
JArr(a) == [t |-> "arr", a |-> a]
JObj(o) == [t |-> "obj", o |-> o]

IsStr(v) == v.t = "str"
IsList(v) == v.t = "arr"
IsDict(v) == v.t = "obj"

Min(a, b) == IF a < b THEN a ELSE b

Keys(o) == {o[i][1] : i \in 1..Len(o)}

\* dict lookup: item[key], for a key known to be present
GetItem(o, key) == o[CHOOSE i \in 1..Len(o) : o[i][1] = key][2]

\* dict assignment obj[key] = val on a present key: the position is kept
SetItem(o, key, val) ==
    [i \in 1..Len(o) |-> IF o[i][1] = key THEN <<key, val>> ELSE o[i]]

\* substring test on str: key in text
StrContains(text, key) ==
    \E i \in 1..(Len(text) - Len(key) + 1) :
        SubSeq(text, i, i + Len(key) - 1) = key

RECURSIVE PyRepr(_), PyReprList(_, _), PyReprDict(_, _)
\* repr(v)
PyRepr(v) ==
    CASE v.t = "null" -> "None"
      [] v.t = "bool" -> IF v.b THEN "True" ELSE "False"
      [] v.t = "num"  -> ToString(v.n)
      [] v.t = "str"  -> "'" \o v.s \o "'"
      [] v.t = "arr"  -> "[" \o PyReprList(v.a, 1) \o "]"
      [] v.t = "obj"  -> "{" \o PyReprDict(v.o, 1) \o "}"
PyReprList(a, i) ==
    IF i > Len(a) THEN ""
    ELSE PyRepr(a[i]) \o (IF i < Len(a) THEN ", " ELSE "") \o PyReprList(a, i + 1)
PyReprDict(o, i) ==
    IF i > Len(o) THEN ""
    ELSE "'" \o o[i][1] \o "': " \o PyRepr(o[i][2])
         \o (IF i < Len(o) THEN ", " ELSE "") \o PyReprDict(o, i + 1)

\* str(v)
PyStr(v) == IF v.t = "str" THEN v.s ELSE PyRepr(v)

RECURSIVE Dumps(_, _, _), DumpsList(_, _, _, _), DumpsDict(_, _, _, _)
\* json.dumps(v, separators=(itemSep, keySep))
Dumps(v, itemSep, keySep) ==
    CASE v.t = "null" -> "null"
      [] v.t = "bool" -> IF v.b THEN "true" ELSE "false"
      [] v.t = "num"  -> ToString(v.n)
      [] v.t = "str"  -> "\"" \o v.s \o "\""
      [] v.t = "arr"  -> "[" \o DumpsList(v.a, 1, itemSep, keySep) \o "]"
      [] v.t = "obj"  -> "{" \o DumpsDict(v.o, 1, itemSep, keySep) \o "}"
DumpsList(a, i, itemSep, keySep) ==
    IF i > Len(a) THEN ""
    ELSE Dumps(a[i], itemSep, keySep) \o (IF i < Len(a) THEN itemSep ELSE "")
         \o DumpsList(a, i + 1, itemSep, keySep)
DumpsDict(o, i, itemSep, keySep) ==
    IF i > Len(o) THEN ""
    ELSE "\"" \o o[i][1] \o "\"" \o keySep \o Dumps(o[i][2], itemSep, keySep)
         \o (IF i < Len(o) THEN itemSep ELSE "") \o DumpsDict(o, i + 1, itemSep, keySep)

\* json.dumps(item, ensure_ascii=False): the default separators ", " and ": "
JsonDumps(v) == Dumps(v, ", ", ": ")

\* the serialization without insignificant whitespace, separators (",", ":")
JsonCompact(v) == Dumps(v, ",", ":")

----------------------------------------------------------------------------
(* Exceptions: a call either returns a value or raises *)

Ok(v) == [ok |-> TRUE, val |-> v]
Raise(exc, msg) == [ok |-> FALSE, exc |-> exc, msg |-> msg]

----------------------------------------------------------------------------
(* app/services/debug_service.py: output normalizer *)

\* the characters str.strip() and the regex class \s remove
Whitespace == {" ", "\n", "\t", "\r"}

RECURSIVE LStrip(_)
LStrip(text) ==
    IF Len(text) > 0 /\ SubSeq(text, 1, 1) \in Whitespace
    THEN LStrip(SubSeq(text, 2, Len(text)))
    ELSE text

RECURSIVE RStrip(_)
RStrip(text) ==
    IF Len(text) > 0 /\ SubSeq(text, Len(text), Len(text)) \in Whitespace
    THEN RStrip(SubSeq(text, 1, Len(text) - 1))
    ELSE text

\* text.strip()
StrStrip(text) == LStrip(RStrip(text))

\* The backquote cannot be written in a TLA+ string: "~" stands for it in
\* every text of this model, and no text uses "~" for anything else.
Backtick == "~"

\* the Markdown code fence, three backquotes
Fence == Backtick \o Backtick \o Backtick

\* "json" under re.IGNORECASE
IsJsonTag(tag) ==
    /\ Len(tag) = 4
    /\ SubSeq(tag, 1, 1) \in {"j", "J"}
    /\ SubSeq(tag, 2, 2) \in {"s", "S"}
    /\ SubSeq(tag, 3, 3) \in {"o", "O"}
    /\ SubSeq(tag, 4, 4) \in {"n", "N"}

\* the first re.sub: a leading fence, an optional json tag (any case) and the
\* whitespace after them are removed
SubLeadingFence(text) ==
    IF Len(text) >= 3 /\ SubSeq(text, 1, 3) = Fence
    THEN LET rest == SubSeq(text, 4, Len(text))
             untagged == IF Len(rest) >= 4 /\ IsJsonTag(SubSeq(rest, 1, 4))
                         THEN SubSeq(rest, 5, Len(rest))
                         ELSE rest
         IN  LStrip(untagged)
    ELSE text

\* the second re.sub: a fence at the end and the whitespace before it are removed
SubTrailingFence(text) ==
    IF Len(text) >= 3 /\ SubSeq(text, Len(text) - 2, Len(text)) = Fence
    THEN RStrip(SubSeq(text, 1, Len(text) - 3))
    ELSE text

_strip_code_fences(text) ==
    StrStrip(SubTrailingFence(SubLeadingFence(StrStrip(text))))

\* the lookup with "suggestion" tried before "cause"
PreferredKeysSwapped == <<"suggestion", "cause", "advice">>

\* items of a dict element looked up first, in this order
PreferredKeys == <<"cause", "suggestion", "advice">>

RECURSIVE FirstStrKey(_, _)
\* the for/else over ("cause", "suggestion", "advice") for one dict item
FirstStrKey(o, k) ==
    IF k > Len(PreferredKeys)
    THEN JsonDumps(JObj(o))
    ELSE IF PreferredKeys[k] \in Keys(o) /\ IsStr(GetItem(o, PreferredKeys[k]))
         THEN GetItem(o, PreferredKeys[k]).s
         ELSE FirstStrKey(o, k + 1)

\* one iteration of the loop over value: what out.append receives
CoerceItem(item) ==
    IF IsStr(item) THEN item.s
    ELSE IF IsDict(item) THEN FirstStrKey(item.o, 1)
    ELSE PyStr(item)

\* returns the Python list[str] as a sequence of strings
_list_to_str_list(value) ==
    IF value.t = "null" THEN <<>>
    ELSE IF ~IsList(value) THEN <<PyStr(value)>>
    ELSE [i \in 1..Len(value.a) |-> CoerceItem(value.a[i])]

\* a list[str] as a Python value
StrList(strs) == JArr([i \in 1..Len(strs) |-> JStr(strs[i])])

----------------------------------------------------------------------------
(* app/services/debug_service.py: schema validator *)

\* the required keys checked in alphabetical order
required_sorted == <<"error_type", "fix_suggestions", "prevention", "root_cause">>

required == <<"error_type", "root_cause", "fix_suggestions", "prevention">>

\* key in obj: dict membership, list membership, substring of a str;
\* int, bool and None are not iterable and raise TypeError
Contains(obj, key) ==
    CASE obj.t = "obj" -> Ok(key \in Keys(obj.o))
      [] obj.t = "arr" -> Ok(\E i \in 1..Len(obj.a) : obj.a[i] = JStr(key))
      [] obj.t = "str" -> Ok(StrContains(obj.s, key))
      [] OTHER -> Raise("TypeError", "argument is not iterable")

RECURSIVE CheckRequired(_, _)
\* the loop over required: the first key not in obj raises
CheckRequired(obj, k) ==
    IF k > Len(required) THEN Ok(obj)
    ELSE LET has == Contains(obj, required[k])
         IN  IF ~has.ok THEN has
             ELSE IF ~has.val
                  THEN Raise("SchemaValidationError", "Missing field: " \o required[k])
                  ELSE CheckRequired(obj, k + 1)

\* the assignments without the str() of error_type
NormalizeKeepErrorType(o) ==
    LET o2 == SetItem(o, "root_cause",
                      StrList(_list_to_str_list(GetItem(o, "root_cause"))))
        o3 == SetItem(o2, "fix_suggestions",
                      StrList(_list_to_str_list(GetItem(o2, "fix_suggestions"))))
    IN  SetItem(o3, "prevention",
                StrList(_list_to_str_list(GetItem(o3, "prevention"))))

\* the four assignments obj[key] = ...
Normalize(o) ==
    LET o1 == SetItem(o, "error_type", JStr(PyStr(GetItem(o, "error_type"))))
        o2 == SetItem(o1, "root_cause",
                      StrList(_list_to_str_list(GetItem(o1, "root_cause"))))
        o3 == SetItem(o2, "fix_suggestions",
                      StrList(_list_to_str_list(GetItem(o2, "fix_suggestions"))))
    IN  SetItem(o3, "prevention",
                StrList(_list_to_str_list(GetItem(o3, "prevention"))))

\* obj[key] on a list or a str raises TypeError
_validate_schema(obj) ==
    LET checked == CheckRequired(obj, 1)
    IN  IF ~checked.ok THEN checked
        ELSE IF ~IsDict(obj)
             THEN Raise("TypeError", "indices must be integers")
             ELSE Ok(JObj(Normalize(obj.o)))

\* the object handed to _validate_schema as the call leaves it: the four
\* assignments are made in place, and only after every key was found
ObjectAfterValidate(obj) ==
    LET validated == _validate_schema(obj)
    IN  IF validated.ok THEN validated.val ELSE obj

----------------------------------------------------------------------------
(* The texts the model can answer with *)

\* the diagnosis the prompt asks for
DocGood ==
    JObj(<< <<"error_type", JStr("TypeError")>>,
            <<"root_cause", JArr(<<JStr("undefined variable")>>)>>,
            <<"fix_suggestions", JArr(<<JStr("check the type")>>)>>,
            <<"prevention", JArr(<<JStr("add a type check")>>)>> >>)

\* loosely typed fields: a scalar, an empty list, null
DocLoose ==
    JObj(<< <<"error_type", JStr("X")>>,
            <<"root_cause", JStr("single")>>,
            <<"fix_suggestions", JArr(<<>>)>>,
            <<"prevention", JNull>> >>)

\* a key the schema does not name, a number as error_type, dict items
DocExtra ==
    JObj(<< <<"confidence", JNum(1)>>,
            <<"error_type", JNum(404)>>,
            <<"root_cause", JArr(<<JObj(<< <<"cause", JStr("leak")>> >>),
                                   JObj(<< <<"other", JNum(1)>> >>)>>)>>,
            <<"fix_suggestions", JArr(<<JNum(2), JBool(TRUE)>>)>>,
            <<"prevention", JArr(<<JNull>>)>> >>)

\* root_cause and prevention are missing
DocMissing ==
    JObj(<< <<"error_type", JStr("X")>>,
            <<"fix_suggestions", JArr(<<JStr("retry")>>)>> >>)

\* valid JSON that is no object
DocArray == JArr(<<>>)
DocNumber == JNum(5)

JsonDocs == {DocGood, DocLoose, DocExtra, DocMissing, DocArray, DocNumber}

Prose == "sorry I cannot help"

\* a rambling answer of 101 characters, and nine of them
Prose100 == Prose \o ". " \o Prose \o ". " \o Prose \o ". " \o Prose \o ". "
            \o "I am only a model"
Prose900 == Prose100 \o Prose100 \o Prose100 \o Prose100 \o Prose100
            \o Prose100 \o Prose100 \o Prose100 \o Prose100

\* 900 blanks
Blank10 == "          "
Blank100 == Blank10 \o Blank10 \o Blank10 \o Blank10 \o Blank10
            \o Blank10 \o Blank10 \o Blank10 \o Blank10 \o Blank10
Blank900 == Blank100 \o Blank100 \o Blank100 \o Blank100 \o Blank100
            \o Blank100 \o Blank100 \o Blank100 \o Blank100

\* a fenced answer that is no JSON and is longer than the logged snippet
LongProse == Fence \o "json\n" \o Prose900 \o "\n" \o Fence

\* the object with missing keys, with 900 blanks after its opening brace
PaddedMissing ==
    "{" \o Blank900 \o SubSeq(JsonDumps(DocMissing), 2, Len(JsonDumps(DocMissing)))

\* that text in a fence: longer than the logged snippet
LongMissing == Fence \o "\n" \o PaddedMissing \o "\n" \o Fence

RawModelTexts ==
    { JsonCompact(DocGood),
      Fence \o "json\n" \o JsonDumps(DocLoose) \o "\n" \o Fence,
      " " \o Fence \o "JSON " \o JsonDumps(DocExtra) \o Fence \o "\n",
      JsonDumps(DocMissing),
      JsonDumps(DocArray),
      JsonDumps(DocNumber),
      Prose,
      LongProse,
      LongMissing }

\* the JSON texts of the documents, with and without the insignificant
\* whitespace after "," and ":", and one with blanks after "{"
JsonTexts ==
    {<<JsonDumps(v), v>> : v \in JsonDocs} \cup {<<JsonCompact(v), v>> : v \in JsonDocs}
    \cup {<<PaddedMissing, DocMissing>>}

\* json.loads(text)
JsonLoads(text) ==
    IF \E tv \in JsonTexts : tv[1] = text
    THEN Ok((CHOOSE tv \in JsonTexts : tv[1] = text)[2])
    ELSE Raise("JSONDecodeError", "Expecting value")

----------------------------------------------------------------------------
(* app/services/debug_service.py: _log_raw_snippet, _parse_model_output *)

SnippetLen == 800

\* a logger that writes the whole text
_log_raw_snippet_whole(raw, reason) == [reason |-> reason, snippet |-> raw]

\* the record logger.warning writes
_log_raw_snippet(raw, reason) ==
    [reason |-> reason, snippet |-> SubSeq(raw, 1, Min(Len(raw), SnippetLen))]

\* res: the dict returned or the exception raised; logged: the records written.
\* raw is whatever call_ollama returned; .strip() exists on str only.
_parse_model_output(raw, context) ==
    IF ~IsStr(raw)
    THEN [res |-> Raise("AttributeError", "object has no attribute strip"),
          logged |-> <<>>]
    ELSE LET raw_stripped == _strip_code_fences(raw.s)
             loaded == JsonLoads(raw_stripped)
         IN  IF ~loaded.ok
             THEN [res |-> loaded,
                   logged |-> <<_log_raw_snippet(raw.s, context \o ":json")>>]
             ELSE LET validated == _validate_schema(loaded.val)
                  IN  IF ~validated.ok /\ validated.exc = "SchemaValidationError"
                      THEN [res |-> validated,
                            logged |-> <<_log_raw_snippet(raw.s, context \o ":schema")>>]
                      ELSE [res |-> validated, logged |-> <<>>]

----------------------------------------------------------------------------
(* app/ollama_client.py: the model gateway *)

Unset == "<unset>"

EnvNames == {"OLLAMA_BASE_URL", "OLLAMA_MODEL", "OLLAMA_MODE", "OLLAMA_TIMEOUT"}

\* the values an override gives a variable
EnvValues(name) ==
    CASE name = "OLLAMA_BASE_URL" -> {Unset, "http://gpu:11434"}
      [] name = "OLLAMA_MODEL"    -> {Unset, "llama3"}
      [] name = "OLLAMA_MODE"     -> {Unset, "generate"}
      [] name = "OLLAMA_TIMEOUT"  -> {Unset, "30"}

Environments == {e \in [EnvNames -> UNION {EnvValues(n) : n \in EnvNames}] :
                    \A n \in EnvNames : e[n] \in EnvValues(n)}

\* os.getenv(name, default)
Getenv(env, name, default) == IF env[name] = Unset THEN default ELSE env[name]

\* float(text) on the timeouts in use
FloatOf(text) == CASE text = "120" -> 120 [] text = "30" -> 30

\* the module globals, evaluated once when ollama_client is imported
ModuleGlobals(env) ==
    [OLLAMA_BASE_URL |-> Getenv(env, "OLLAMA_BASE_URL", "http://localhost:11434"),
     OLLAMA_MODEL    |-> Getenv(env, "OLLAMA_MODEL", "qwen2.5:7b-instruct"),
     OLLAMA_MODE     |-> Getenv(env, "OLLAMA_MODE", "chat"),
     OLLAMA_TIMEOUT  |-> FloatOf(Getenv(env, "OLLAMA_TIMEOUT", "120"))]

_cfg(env) ==
    [base  |-> Getenv(env, "OLLAMA_BASE_URL", "http://127.0.0.1:11434"),
     model |-> Getenv(env, "OLLAMA_MODEL", ""),
     mode  |-> Getenv(env, "OLLAMA_MODE", "chat")]

SystemInstruction == "You are a senior debugging assistant. Output JSON only."

\* call_ollama up to client.post: the request put on the wire
call_ollama_post(text, env, mod) ==
    LET cfg == _cfg(env)
    IN  IF mod.OLLAMA_MODE = "generate"
        THEN [mode    |-> "generate",
              url     |-> cfg.base \o "/api/generate",
              model   |-> mod.OLLAMA_MODEL,
              timeout |-> mod.OLLAMA_TIMEOUT,
              system  |-> "",
              prompt  |-> text]
        ELSE [mode    |-> "chat",
              url     |-> mod.OLLAMA_BASE_URL \o "/api/chat",
              model   |-> mod.OLLAMA_MODEL,
              timeout |-> mod.OLLAMA_TIMEOUT,
              system  |-> SystemInstruction,
              prompt  |-> text]

\* dict.get(key, default)
DictGet(o, key, default) == IF key \in Keys(o) THEN GetItem(o, key) ELSE default

\* Python truth value
Truthy(v) ==
    CASE v.t = "null" -> FALSE
      [] v.t = "bool" -> v.b
      [] v.t = "num"  -> v.n # 0
      [] v.t = "str"  -> v.s # ""
      [] v.t = "arr"  -> Len(v.a) > 0
      [] v.t = "obj"  -> Len(v.o) > 0

\* a failure below HTTP: connection refused, timeout
TransportFailure == [net |-> FALSE, status |-> 0, text |-> "", isJson |-> FALSE, data |-> JNull]

\* an HTTP response; isJson: r.json() can decode the body, to data
HttpResponse(status, text, isJson, data) ==
    [net |-> TRUE, status |-> status, text |-> text, isJson |-> isJson, data |-> data]

\* call_ollama from the response on: the raw value returned or the exception
call_ollama_result(mode, r) ==
    IF ~r.net THEN Raise("ConnectError", "transport failure")
    ELSE IF r.status >= 400
    THEN Raise("OllamaError",
               "Ollama " \o mode \o " failed: " \o ToString(r.status) \o " " \o r.text)
    ELSE IF ~r.isJson THEN Raise("JSONDecodeError", "Expecting value")
    ELSE IF ~IsDict(r.data) THEN Raise("AttributeError", "object has no attribute get")
    ELSE IF mode = "generate" THEN Ok(DictGet(r.data.o, "response", JStr("")))
    ELSE LET got == DictGet(r.data.o, "message", JNull)
             message == IF Truthy(got) THEN got ELSE JObj(<<>>)
         IN  IF ~IsDict(message)
             THEN Raise("AttributeError", "object has no attribute get")
             ELSE Ok(DictGet(message.o, "content", JStr("")))

\* answers that carry no model text: an envelope without the expected key, a
\* JSON array, a body that is no JSON, two error statuses, no answer at all
OtherResponses ==
    { HttpResponse(200, "<envelope>", TRUE, JObj(<< <<"done", JBool(TRUE)>> >>)),
      HttpResponse(200, "<envelope>", TRUE, JArr(<<>>)),
      HttpResponse(200, "<html>", FALSE, JNull),
      HttpResponse(500, "internal error", FALSE, JNull),
      HttpResponse(404, "<envelope>", TRUE, JObj(<< <<"error", JStr("model not found")>> >>)),
      TransportFailure }

GenerateResponses ==
    { HttpResponse(200, "<envelope>", TRUE, JObj(<< <<"response", JStr(raw)>> >>))
      : raw \in RawModelTexts } \cup OtherResponses

ChatResponses ==
    { HttpResponse(200, "<envelope>", TRUE,
                   JObj(<< <<"message", JObj(<< <<"content", JStr(raw)>> >>)>> >>))
      : raw \in RawModelTexts } \cup OtherResponses

\* what the inference endpoint can answer to a request on the given path
Responses(mode) == IF mode = "generate" THEN GenerateResponses ELSE ChatResponses

----------------------------------------------------------------------------
(* app/services/debug_service.py: the retry orchestrator *)

RetryInstruction ==
    "\n\nYour output did not meet the required format. "
    \o "Please output JSON only and include fields "
    \o "error_type/root_cause/fix_suggestions/prevention."

\* the exceptions the except clause of _run_llm names
RetriedExceptions == {"JSONDecodeError", "SchemaValidationError"}

\* a try block around the first call too, catching every exception
CaughtForRetryBroad(where, exc) == TRUE

\* where: "call" for the await of call_ollama, "parse" for _parse_model_output.
\* Only the parse of the first response is inside the try block.
CaughtForRetry(where, exc) == where = "parse" /\ exc \in RetriedExceptions

\* a retry that repeats the prompt as it was
retry_prompt_unchanged(text) == text

retry_prompt(text) == text \o RetryInstruction

\* how _run_llm ends: the tuple it returns or the exception it raises
Pending == [state |-> "pending", obj |-> JNull, raw |-> "", exc |-> "", msg |-> ""]
Returned(obj, raw) == [state |-> "returned", obj |-> obj, raw |-> raw, exc |-> "", msg |-> ""]
Raised(e) == [state |-> "raised", obj |-> JNull, raw |-> "", exc |-> e.exc, msg |-> e.msg]

\* how one attempt ended. at: "call" when call_ollama raised, "parse" when
\* _parse_model_output raised; raw: the text call_ollama returned, if any
AttemptFailed(at, e, raw) ==
    [state |-> "raised", at |-> at, exc |-> e.exc, msg |-> e.msg, raw |-> raw, obj |-> JNull]
AttemptPassed(obj, raw) ==
    [state |-> "returned", at |-> "none", exc |-> "", msg |-> "", raw |-> raw, obj |-> obj]

\* the text of a value call_ollama returned, for the records of this model
TextOf(v) == IF IsStr(v) THEN v.s ELSE ""

\* _run_llm from the first response on. retry: the second call is issued.
_run_llm_first(mode, r) ==
    LET called == call_ollama_result(mode, r)
    IN  IF ~called.ok
        THEN [retry |-> CaughtForRetry("call", called.exc),
              result |-> Raised(called),
              attempt |-> AttemptFailed("call", called, ""),
              logged |-> <<>>]
        ELSE LET parsed == _parse_model_output(called.val, "first")
             IN  IF parsed.res.ok
                 THEN [retry |-> FALSE,
                       result |-> Returned(parsed.res.val, called.val.s),
                       attempt |-> AttemptPassed(parsed.res.val, called.val.s),
                       logged |-> parsed.logged]
                 ELSE [retry |-> CaughtForRetry("parse", parsed.res.exc),
                       result |-> Raised(parsed.res),
                       attempt |-> AttemptFailed("parse", parsed.res, TextOf(called.val)),
                       logged |-> parsed.logged]

\* the retry returning (obj_retry, raw) in place of (obj_retry, raw_retry)
_run_llm_retry_first_raw(mode, r, raw) ==
    LET called == call_ollama_result(mode, r)
    IN  IF ~called.ok
        THEN [result |-> Raised(called),
              attempt |-> AttemptFailed("call", called, ""),
              logged |-> <<>>]
        ELSE LET parsed == _parse_model_output(called.val, "retry")
             IN  IF parsed.res.ok
                 THEN [result |-> Returned(parsed.res.val, raw),
                       attempt |-> AttemptPassed(parsed.res.val, called.val.s),
                       logged |-> parsed.logged]
                 ELSE [result |-> Raised(parsed.res),
                       attempt |-> AttemptFailed("parse", parsed.res, TextOf(called.val)),
                       logged |-> parsed.logged]

\* _run_llm from the retry's response on: nothing is caught here. raw is the
\* local of that name, the first attempt's text, still in scope.
_run_llm_retry(mode, r, raw) ==
    LET called == call_ollama_result(mode, r)
    IN  IF ~called.ok
        THEN [result |-> Raised(called),
              attempt |-> AttemptFailed("call", called, ""),
              logged |-> <<>>]
        ELSE LET parsed == _parse_model_output(called.val, "retry")
             IN  IF parsed.res.ok
                 THEN [result |-> Returned(parsed.res.val, called.val.s),
                       attempt |-> AttemptPassed(parsed.res.val, called.val.s),
                       logged |-> parsed.logged]
                 ELSE [result |-> Raised(parsed.res),
                       attempt |-> AttemptFailed("parse", parsed.res, TextOf(called.val)),
                       logged |-> parsed.logged]

----------------------------------------------------------------------------
(* app/schemas.py and app/main.py: the /debug boundary *)

IsStrList(v) == IsList(v) /\ \A i \in 1..Len(v.a) : IsStr(v.a[i])

\* DebugResponse(**obj): the four declared fields are required and typed,
\* other keys are ignored
DebugResponse(obj) ==
    IF /\ \A i \in 1..Len(required) : required[i] \in Keys(obj.o)
       /\ IsStr(GetItem(obj.o, "error_type"))
       /\ \A i \in 2..Len(required) : IsStrList(GetItem(obj.o, required[i]))
    THEN Ok(JObj([i \in 1..Len(required) |->
                    <<required[i], GetItem(obj.o, required[i])>>]))
    ELSE Raise("ValidationError", "validation error for DebugResponse")

NoAnswer == [status |-> 0, body |-> JNull, detail |-> ""]

\* HTTPException(status_code, detail)
HTTPException(status, detail) == [status |-> status, body |-> JNull, detail |-> detail]

\* a handler without the except OllamaError clause
StatusForInternal(exc, msg) == HTTPException(500, msg)

\* the except clauses of debug, in order
StatusFor(exc, msg) ==
    IF exc = "OllamaError" THEN HTTPException(502, msg)
    ELSE IF exc = "JSONDecodeError"
    THEN HTTPException(500, "Model output is not valid JSON: " \o msg)
    ELSE IF exc = "SchemaValidationError" THEN HTTPException(500, msg)
    ELSE HTTPException(500, msg)

\* the /debug handler around run_debug, given how _run_llm ended
debug(res) ==
    IF res.state = "returned"
    THEN LET built == DebugResponse(res.obj)
         IN  IF built.ok
             THEN [status |-> 200, body |-> built.val, detail |-> ""]
             ELSE StatusFor(built.exc, built.msg)
    ELSE StatusFor(res.exc, res.msg)

\* the except clauses of parse, in order
StatusForParse(exc, msg) ==
    IF exc = "OllamaError" THEN HTTPException(502, msg)
    ELSE IF exc = "JSONDecodeError"
    THEN HTTPException(500, "Model output is not valid JSON: " \o msg)
    ELSE HTTPException(500, msg)

\* the /parse handler around run_parse, given how run_parse ended: the
\* object is returned as it is
parse(res) ==
    IF res.state = "returned"
    THEN [status |-> 200, body |-> res.obj, detail |-> ""]
    ELSE StatusForParse(res.exc, res.msg)

\* the ways run_parse can end: an extraction, or one of the exceptions the
\* gateway, the parser and the validator raise
RunParseOutcomes ==
    { Returned(JObj(<< <<"language_guess", JStr("python")>>,
                       <<"confidence", JNum(1)>> >>), "<extraction>"),
      Raised(Raise("OllamaError", "Ollama chat failed: 500 internal error")),
      Raised(Raise("JSONDecodeError", "Expecting value")),
      Raised(Raise("SchemaValidationError", "Missing field: error_text")),
      Raised(Raise("TypeError", "argument is not iterable")) }

----------------------------------------------------------------------------
(* One request, from the handler's entry to its answer *)

\* the prompts run_debug renders from its template
Prompts == {"diagnose: TypeError", "diagnose: KeyError"}

NotApplied == Raise("none", "")

PureIdle == pin = JNull /\ pobj = JNull /\ pout = NotApplied /\ pfun = "none"

Init ==
    /\ environ \in Environments
    /\ modcfg = ModuleGlobals(environ)
    /\ envChanges = 0
    /\ endpoint = ""
    /\ pc = "idle"
    /\ prompt = ""
    /\ calls = <<>>
    /\ resps = <<>>
    /\ result = Pending
    /\ http = NoAnswer
    /\ log = <<>>
    /\ attempts = <<>>
    /\ PureIdle

\* some code of the process sets or deletes an environment variable
SetEnv(name, val) ==
    /\ pc # "done"
    /\ envChanges < MaxEnvChanges
    /\ val # environ[name]
    /\ environ' = [environ EXCEPT ![name] = val]
    /\ envChanges' = envChanges + 1
    /\ UNCHANGED <<modcfg, endpoint, pc, prompt, calls, resps, result, http, log, attempts>>
    /\ UNCHANGED pureVars

\* debug -> run_debug -> _run_llm -> call_ollama, up to the first client.post
Request(text) ==
    /\ pc = "idle"
    /\ endpoint' = "/debug"
    /\ prompt' = text
    /\ calls' = <<call_ollama_post(text, environ, modcfg)>>
    /\ pc' = "first_call"
    /\ UNCHANGED <<environ, modcfg, envChanges, resps, result, http, log, attempts>>
    /\ UNCHANGED pureVars

\* the first response arrives: _run_llm returns, raises, or issues the retry
\* (step is bound by \E over a singleton so that it is evaluated once)
FirstResponse(r) ==
    /\ pc = "first_call"
    /\ \E step \in {_run_llm_first(calls[1].mode, r)} :
           /\ resps' = Append(resps, r)
           /\ log' = log \o step.logged
           /\ attempts' = Append(attempts, step.attempt)
           /\ IF step.retry
              THEN /\ calls' = Append(calls,
                          call_ollama_post(retry_prompt(prompt), environ, modcfg))
                   /\ pc' = "retry_call"
                   /\ UNCHANGED <<result, http>>
              ELSE /\ result' = step.result
                   /\ http' = debug(step.result)
                   /\ pc' = "done"
                   /\ UNCHANGED calls
    /\ UNCHANGED <<environ, modcfg, envChanges, endpoint, prompt>>
    /\ UNCHANGED pureVars

\* the retry's response arrives: _run_llm returns or raises
RetryResponse(r) ==
    /\ pc = "retry_call"
    /\ \E step \in {_run_llm_retry(calls[2].mode, r, attempts[1].raw)} :
           /\ resps' = Append(resps, r)
           /\ log' = log \o step.logged
           /\ attempts' = Append(attempts, step.attempt)
           /\ result' = step.result
           /\ http' = debug(step.result)
           /\ pc' = "done"
    /\ UNCHANGED <<environ, modcfg, envChanges, endpoint, prompt, calls>>
    /\ UNCHANGED pureVars

\* a /parse request, from the handler's entry to its answer, given how
\* run_parse ends
ParseRequest(outcome) ==
    /\ pc = "idle"
    /\ endpoint' = "/parse"
    /\ result' = outcome
    /\ http' = parse(outcome)
    /\ pc' = "done"
    /\ UNCHANGED <<environ, modcfg, envChanges, prompt, calls, resps, log, attempts>>
    /\ UNCHANGED pureVars

Next ==
    \/ \E name \in EnvNames : \E val \in EnvValues(name) : SetEnv(name, val)
    \/ \E text \in Prompts : Request(text)
    \/ \E outcome \in RunParseOutcomes : ParseRequest(outcome)
    \/ /\ pc = "first_call"
       /\ \E r \in Responses(calls[1].mode) : FirstResponse(r)
    \/ /\ pc = "retry_call"
       /\ \E r \in Responses(calls[2].mode) : RetryResponse(r)

Spec == Init /\ [][Next]_vars

----------------------------------------------------------------------------
(* The validator and the array coercion applied to one value *)

\* items of the lists handed to _list_to_str_list
ListItems ==
    { JStr("leak"), JNum(1), JBool(TRUE), JNull,
      JObj(<< <<"cause", JStr("c")>> >>),
      JObj(<< <<"suggestion", JStr("s")>>, <<"cause", JStr("c")>> >>),
      JObj(<< <<"cause", JNum(1)>>, <<"advice", JStr("a")>> >>),
      JObj(<< <<"other", JNum(1)>>, <<"cause", JNull>> >>),
      JArr(<<JStr("n")>>) }

Lists == {JArr(a) : a \in UNION {[1..n -> ListItems] : n \in 0..MaxLen}}

AllKeys == <<"extra", "error_type", "root_cause", "fix_suggestions", "prevention">>

\* the value of a key in the objects handed to _validate_schema
ShapeValue(shape, key) ==
    IF shape = 1
    THEN CASE key = "error_type" -> JStr("E")
           [] key = "extra" -> JNum(1)
           [] OTHER -> JArr(<<JStr("a")>>)
    ELSE CASE key = "error_type" -> JNum(7)
           [] key = "root_cause" -> JStr("single")
           [] key = "fix_suggestions" -> JNull
           [] key = "prevention" -> JArr(<<JObj(<< <<"cause", JStr("c")>> >>), JNum(3)>>)
           [] key = "extra" -> JObj(<< <<"k", JStr("v")>> >>)

ObjectWith(keys, shape) ==
    LET present == SelectSeq(AllKeys, LAMBDA k : k \in keys)
    IN  JObj([i \in 1..Len(present) |-> <<present[i], ShapeValue(shape, present[i])>>])

Objects == {ObjectWith(keys, shape) : keys \in SUBSET Keys([i \in 1..Len(AllKeys) |-> <<AllKeys[i], JNull>>]),
                                      shape \in 1..2}

Scalars ==
    { JNull, JNum(5), JBool(FALSE), JStr("plain"),
      JStr("error_type root_cause fix_suggestions prevention"),
      JArr(<<JStr("error_type"), JStr("root_cause"), JStr("fix_suggestions"),
             JStr("prevention")>>) }

PureInputs == Lists \cup Objects \cup Scalars

PureInit ==
    /\ environ = [n \in EnvNames |-> Unset]
    /\ modcfg = ModuleGlobals(environ)
    /\ envChanges = 0
    /\ endpoint = ""
    /\ pc = "idle"
    /\ prompt = ""
    /\ calls = <<>>
    /\ resps = <<>>
    /\ result = Pending
    /\ http = NoAnswer
    /\ log = <<>>
    /\ attempts = <<>>
    /\ pin \in PureInputs
    /\ pobj = pin
    /\ pout = NotApplied
    /\ pfun = "none"

ApplyValidate ==
    /\ pfun = "none"
    /\ pfun' = "_validate_schema"
    /\ pout' = _validate_schema(pin)
    /\ pobj' = ObjectAfterValidate(pin)
    /\ UNCHANGED pin
    /\ UNCHANGED runVars

ApplyCoerce ==
    /\ pfun = "none"
    /\ pfun' = "_list_to_str_list"
    /\ pout' = Ok(_list_to_str_list(pin))
    /\ UNCHANGED <<pin, pobj>>
    /\ UNCHANGED runVars

PureNext == ApplyValidate \/ ApplyCoerce

SpecPure == PureInit /\ [][PureNext]_vars

----------------------------------------------------------------------------
(* Properties of the retry orchestrator and the request boundary *)

\* the text an HTTP response carries under the key its wire mode reads
CarriedText(r, mode) ==
    IF mode = "generate"
    THEN GetItem(r.data.o, "response").s
    ELSE GetItem(GetItem(r.data.o, "message").o, "content").s

LastAttempt == attempts[Len(attempts)]

CorrectiveInstruction ==
    "\n\nYour output did not meet the required format. Please output JSON only "
    \o "and include fields error_type/root_cause/fix_suggestions/prevention."

\* C1: a run of _run_llm calls the gateway at most twice; the second call is
\* made only after the first response's text failed JSON parsing or schema
\* validation, and carries the original prompt followed by the fixed
\* corrective instruction; when the second response fails to parse or
\* validate the run ends in failure and no third call is made.
C1_AtMostOneRetry ==
    /\ Len(calls) <= 2
    /\ Len(resps) <= Len(calls)
    /\ Len(calls) >= 1 => calls[1].prompt = prompt
    /\ Len(calls) = 2 =>
          /\ Len(attempts) >= 1
          /\ attempts[1].state = "raised"
          /\ attempts[1].at = "parse"
          /\ attempts[1].exc \in {"JSONDecodeError", "SchemaValidationError"}
          /\ calls[2].prompt = prompt \o CorrectiveInstruction
    /\ (Len(attempts) = 2 /\ attempts[2].state = "raised") =>
          /\ pc = "done"
          /\ Len(calls) = 2
          /\ result.state = "raised"
          /\ result.exc = attempts[2].exc
    /\ pc = "done" => Len(resps) = Len(calls)

\* the retry's text failed to parse or validate as well
C1_Witness ==
    /\ pc = "done"
    /\ Len(calls) = 2
    /\ attempts[2].state = "raised"
    /\ attempts[2].at = "parse"

\* C2: the pair a successful run returns comes from one attempt: when the
\* first response parses and validates, the run returns its text and makes no
\* second call; when the retry succeeds, the run returns the retry's result
\* with the retry's text.
C2_PairFromOneAttempt ==
    /\ (Len(attempts) >= 1 /\ attempts[1].state = "returned") =>
          /\ pc = "done"
          /\ Len(calls) = 1
          /\ result.state = "returned"
          /\ result.raw = CarriedText(resps[1], calls[1].mode)
    /\ (Len(attempts) = 2 /\ attempts[2].state = "returned") =>
          /\ result.state = "returned"
          /\ result.raw = CarriedText(resps[2], calls[2].mode)
    /\ (endpoint = "/debug" /\ result.state = "returned") =>
          /\ LastAttempt.state = "returned"
          /\ result.obj = LastAttempt.obj
          /\ _parse_model_output(JStr(result.raw), "check").res = Ok(result.obj)

\* the retry succeeded on a text other than the first attempt's
C2_Witness ==
    /\ pc = "done"
    /\ Len(calls) = 2
    /\ result.state = "returned"
    /\ result.raw # attempts[1].raw

\* C3: an HTTP status >= 400 is never retried: after such a response to the
\* first call no further call is made, after such a response to the retry
\* none follows, and the run ends with the OllamaError itself.
C3_GatewayFailureNotRetried ==
    \A i \in 1..Len(resps) :
        (resps[i].net /\ resps[i].status >= 400) =>
            /\ pc = "done"
            /\ Len(calls) = i
            /\ attempts[i].at = "call"
            /\ result.state = "raised"
            /\ result.exc = "OllamaError"

\* the retry call was answered with an error status
C3_Witness ==
    /\ Len(resps) = 2
    /\ resps[2].net
    /\ resps[2].status >= 400
    /\ result.exc = "OllamaError"

\* C4: every failed run reaches the boundary as an HTTP error: OllamaError
\* maps to 502, JSONDecodeError, SchemaValidationError and any other
\* exception map to 500, and no run whose last attempt failed is answered
\* with a success.
C4_FailuresSurface ==
    pc = "done" =>
        /\ http.status \in {200, 500, 502}
        /\ result.state \in {"returned", "raised"}
        /\ result.state = "raised" =>
              http.status = (IF result.exc = "OllamaError" THEN 502 ELSE 500)
        /\ (endpoint = "/debug" /\ LastAttempt.state = "raised") =>
              /\ result.state = "raised"
              /\ result.exc = LastAttempt.exc
              /\ http.status >= 400
        /\ http.status = 200 => result.state = "returned"

\* both attempts failed, the second on the schema
C4_Witness ==
    /\ pc = "done"
    /\ endpoint = "/debug"
    /\ Len(attempts) = 2
    /\ result.exc = "SchemaValidationError"
    /\ http.status = 500

----------------------------------------------------------------------------
(* Properties of the validator and of the array coercion *)

FourKeys == {"error_type", "root_cause", "fix_suggestions", "prevention"}

ListFields == {"root_cause", "fix_suggestions", "prevention"}

\* the object json.loads made of the text a successful run returns
LoadedObject == JsonLoads(_strip_code_fences(result.raw)).val

\* error_type is a str and the three list fields are lists of str
TypedFields(obj) ==
    /\ IsDict(obj)
    /\ FourKeys \subseteq Keys(obj.o)
    /\ IsStr(GetItem(obj.o, "error_type"))
    /\ \A k \in ListFields :
          /\ IsList(GetItem(obj.o, k))
          /\ \A i \in 1..Len(GetItem(obj.o, k).a) : IsStr(GetItem(obj.o, k).a[i])

\* C5 as the specification states it: the structured result of a successful
\* run of _run_llm has exactly the four keys and no others, error_type a string and the
\* other three sequences of strings.
C5_ExactlyFourKeys ==
    (endpoint = "/debug" /\ result.state = "returned") =>
        /\ TypedFields(result.obj)
        /\ Keys(result.obj.o) = FourKeys

\* C5, amended: the structured result of a successful run has the four keys,
\* error_type a string and the other three sequences of strings, whatever
\* shapes the model's object carried; the other keys of the model's object
\* stay in the result with their values untouched, and it is the /debug
\* response body that has exactly the four keys.
C5_FourKeysTyped ==
    (endpoint = "/debug" /\ result.state = "returned") =>
        /\ TypedFields(result.obj)
        /\ Keys(result.obj.o) = Keys(LoadedObject.o)
        /\ \A k \in Keys(result.obj.o) \ FourKeys :
              GetItem(result.obj.o, k) = GetItem(LoadedObject.o, k)
        /\ http.status = 200
        /\ TypedFields(http.body)
        /\ Keys(http.body.o) = FourKeys
        /\ \A k \in FourKeys : GetItem(http.body.o, k) = GetItem(result.obj.o, k)

\* the retry returned an object with a fifth key and loosely typed fields
C5_Witness ==
    /\ pc = "done"
    /\ Len(calls) = 2
    /\ result.state = "returned"
    /\ "confidence" \in Keys(result.obj.o)
    /\ ~IsStr(GetItem(LoadedObject.o, "error_type"))

\* C6: a first response whose text is valid JSON but no object fails
\* validation with a SchemaValidationError, and so triggers the retry.
C6_NonObjectIsSchemaFailure ==
    (/\ Len(attempts) >= 1
     /\ attempts[1].at # "call"
     /\ JsonLoads(_strip_code_fences(attempts[1].raw)).ok
     /\ ~IsDict(JsonLoads(_strip_code_fences(attempts[1].raw)).val)) =>
        /\ attempts[1].state = "raised"
        /\ attempts[1].exc = "SchemaValidationError"
        /\ Len(calls) = 2

KeyOrder == <<"error_type", "root_cause", "fix_suggestions", "prevention">>

MissingKeys(obj) == {i \in 1..Len(KeyOrder) : KeyOrder[i] \notin Keys(obj.o)}

FirstMissing(obj) ==
    KeyOrder[CHOOSE i \in MissingKeys(obj) : \A j \in MissingKeys(obj) : i <= j]

\* C7: for an object missing at least one of the four required keys,
\* _validate_schema raises a SchemaValidationError whose message names one
\* key, the first missing one in the order error_type, root_cause,
\* fix_suggestions, prevention, and the object is left as it was.
C7_FirstMissingKeyNamed ==
    (pfun = "_validate_schema" /\ IsDict(pin) /\ MissingKeys(pin) # {}) =>
        /\ ~pout.ok
        /\ pout.exc = "SchemaValidationError"
        /\ pout.msg = "Missing field: " \o FirstMissing(pin)
        /\ pobj = pin

\* several keys are missing, the first key is not one of them, and a present
\* field has a shape the coercion would have changed
C7_Witness ==
    /\ pfun = "_validate_schema"
    /\ IsDict(pin)
    /\ Cardinality(MissingKeys(pin)) >= 2
    /\ 1 \notin MissingKeys(pin)
    /\ ~IsStr(GetItem(pin.o, "error_type"))
    /\ ~pout.ok

\* C8: a response with a status below 400 whose body is no JSON is a
\* gateway failure: no call follows it and the boundary answers 502.
C8_MalformedBodyIsGatewayFailure ==
    \A i \in 1..Len(resps) :
        (resps[i].net /\ resps[i].status < 400 /\ ~resps[i].isJson) =>
            /\ pc = "done"
            /\ Len(calls) = i
            /\ http.status = 502

\* C9: each gateway call uses the environment as it is when the call is made:
\* a variable that is set then decides the call's wire mode, endpoint URL,
\* model and timeout.
C9_ConfigResolvedAtCallTime ==
    [][Len(calls') > Len(calls) =>
          LET call == calls'[Len(calls')]
          IN  /\ environ["OLLAMA_MODE"] # Unset =>
                    call.mode = environ["OLLAMA_MODE"]
              /\ environ["OLLAMA_BASE_URL"] # Unset =>
                    call.url = environ["OLLAMA_BASE_URL"] \o "/api/" \o call.mode
              /\ environ["OLLAMA_MODEL"] # Unset =>
                    call.model = environ["OLLAMA_MODEL"]
              /\ environ["OLLAMA_TIMEOUT"] # Unset =>
                    call.timeout = FloatOf(environ["OLLAMA_TIMEOUT"])]_vars

LookupOrder == <<"cause", "suggestion", "advice">>

\* the keys of the lookup order under which a mapping holds a string
StringKeys(item) ==
    {k \in 1..Len(LookupOrder) :
        /\ LookupOrder[k] \in Keys(item.o)
        /\ IsStr(GetItem(item.o, LookupOrder[k]))}

\* what one element of an array coerces to; compact: the serialization of a
\* mapping carries no whitespace after "," and ":"
ExpectedItem(item, compact) ==
    IF IsStr(item) THEN item.s
    ELSE IF IsDict(item)
    THEN IF StringKeys(item) # {}
         THEN GetItem(item.o, LookupOrder[
                  CHOOSE k \in StringKeys(item) : \A j \in StringKeys(item) : k <= j]).s
         ELSE IF compact THEN JsonCompact(item) ELSE JsonDumps(item)
    ELSE PyStr(item)

\* null, arrays and scalars: the values the claim speaks of
Coercible(value) == ~IsDict(value)

CoercionAsStated(value, out, compact) ==
    IF value.t = "null" THEN out = <<>>
    ELSE IF IsList(value)
    THEN /\ Len(out) = Len(value.a)
         /\ \A i \in 1..Len(out) : out[i] = ExpectedItem(value.a[i], compact)
    ELSE out = <<PyStr(value)>>

\* C10 as the specification states it: a mapping without a string under
\* cause, suggestion or advice coerces to its compact JSON serialization.
C10_CompactSerialization ==
    (pfun = "_list_to_str_list" /\ Coercible(pin)) =>
        CoercionAsStated(pin, pout.val, TRUE)

\* C10, amended: the coercion gives one output element per input element, in
\* order: a string unchanged, a mapping the first string found under cause,
\* suggestion, advice in that order and otherwise the JSON serialization of
\* the whole mapping with json.dumps's default separators ", " and ": ", any
\* other element its string form; null gives the empty sequence and a
\* non-array scalar a one-element sequence.
C10_DefaultSeparators ==
    (pfun = "_list_to_str_list" /\ Coercible(pin)) =>
        CoercionAsStated(pin, pout.val, FALSE)

\* a list of a mapping that is serialized and a mapping holding strings under
\* both suggestion and cause
C10_Witness ==
    /\ pfun = "_list_to_str_list"
    /\ IsList(pin)
    /\ Len(pin.a) = 2
    /\ IsDict(pin.a[1])
    /\ StringKeys(pin.a[1]) = {}
    /\ IsDict(pin.a[2])
    /\ StringKeys(pin.a[2]) = {1, 2}
    /\ Len(pout.val) = 2

----------------------------------------------------------------------------
(* Properties of the diagnostic log *)

\* the attempt ended in the parser's or the validator's own exception
FailedParseOrSchema(at) ==
    /\ at.state = "raised"
    /\ at.at = "parse"
    /\ at.exc \in {"JSONDecodeError", "SchemaValidationError"}

ContextTag(i) == IF i = 1 THEN "first" ELSE "retry"
KindTag(exc) == IF exc = "JSONDecodeError" THEN "json" ELSE "schema"

SnippetLimit == 800

\* the first 800 characters of a text
Head800(text) == IF Len(text) <= SnippetLimit THEN text ELSE SubSeq(text, 1, SnippetLimit)

\* the record the i-th attempt is to leave: attempts[i].raw is the text the
\* gateway returned for it
SnippetOf(i) ==
    [reason |-> ContextTag(i) \o ":" \o KindTag(attempts[i].exc),
     snippet |-> Head800(attempts[i].raw)]

RECURSIVE ExpectedLog(_)
\* the records the first n attempts are to leave, in order
ExpectedLog(n) ==
    IF n = 0 THEN <<>>
    ELSE ExpectedLog(n - 1)
         \o (IF FailedParseOrSchema(attempts[n]) THEN <<SnippetOf(n)>> ELSE <<>>)

====
